---- MODULE Spec2Model ----
(***************************************************************************)
(* Model of the class-council organizer (organizer.py, app.py).            *)
(*                                                                         *)
(* A column name, a class label and a cell text are sequences of           *)
(* one-character strings; a letter is a one-character string.  The data    *)
(* frame is df_columns (the header, in file order) and df_rows (one record *)
(* per CSV line: the teacher and the cells by column name).                *)
(***************************************************************************)
EXTENDS Integers, Sequences, FiniteSets, TLC

VARIABLES df_columns, df_rows, max_group_size, pc,
          valid_cols, class_to_teachers, year_letter_to_class, complete_letters,
          conflicts, letters_sorted, idx, groups, tables, validation, error

vars == <<df_columns, df_rows, max_group_size, pc,
          valid_cols, class_to_teachers, year_letter_to_class, complete_letters,
          conflicts, letters_sorted, idx, groups, tables, validation, error>>

-----------------------------------------------------------------------------
(* Bounds of the checked inputs *)

\* letters of the pool the pipeline's data frames are built from
NumLetters == 3
\* rows (teachers) of the pipeline's data frames
NumTeachers == 2
\* letters of the pool the registry's headers are built from
RegLetters == 2
\* longest extra column name of the registry's headers
MaxNameLen == 3
\* letters of the pool the grouper's inputs are built from; also the largest max_group_size
MaxLetters == 5
\* letters and teachers of the validator's hand-built tables
ValLetters == 2
ValTeachers == 1
\* rows (teachers) of the data frames of five pairwise conflicting letters
ScenarioTeachers == 2

-----------------------------------------------------------------------------
(* Program constants *)

\* range(1, 6): the years of a complete letter
LastYear == 5
Years == 1..LastYear
\* max_group_size: the default of greedy_group_letters and the value app.py passes
DefaultMaxGroupSize == 4

Upper == <<"A","B","C","D","E","F","G","H","I","J","K","L","M",
           "N","O","P","Q","R","S","T","U","V","W","X","Y","Z">>
UpperSet == {Upper[i] : i \in 1..Len(Upper)}
Digits == <<"0","1","2","3","4","5","6","7","8","9">>
Whitespace == {" ", "\t"}
Docente == <<"D","o","c","e","n","t","e">>
None == <<>>
Unset == <<>>

\* position of a letter in the alphabet: the order sorted() puts letters in
LetterOrd(L) == CHOOSE i \in 1..Len(Upper) : Upper[i] = L
\* int() of a one-digit string
DigitVal(ch) == (CHOOSE i \in 1..Len(Digits) : Digits[i] = ch) - 1

Range(s) == {s[i] : i \in 1..Len(s)}

RECURSIVE LStrip(_)
LStrip(s) == IF s # <<>> /\ Head(s) \in Whitespace THEN LStrip(Tail(s)) ELSE s

RECURSIVE RStrip(_)
RStrip(s) ==
  IF s # <<>> /\ s[Len(s)] \in Whitespace THEN RStrip(SubSeq(s, 1, Len(s) - 1)) ELSE s

\* str.strip()
Strip(s) == RStrip(LStrip(s))

\* re.fullmatch(r"([1-5])([A-Z])", s)
MatchesClass(s) ==
  /\ Len(s) = 2
  /\ s[1] \in {Digits[i] : i \in 2..6}
  /\ s[2] \in UpperSet

\* parse_class without the strip()
parse_class_unstripped(col) ==
  IF MatchesClass(col) THEN <<DigitVal(col[1]), col[2]>> ELSE None

parse_class(col) ==
  LET s == Strip(col)
  IN  IF MatchesClass(s) THEN <<DigitVal(s[1]), s[2]>> ELSE None

\* the rows a column's mask selects: text not blank after strip, and not NaN
Mask(rows, c) ==
  {r \in 1..Len(rows) : Strip(rows[r].cells[c].s) # <<>> /\ ~rows[r].cells[c].na}

RECURSIVE SelectSeq2(_, _)
\* [x for x in s if x in keep], keeping the order of s
SelectSeq2(s, keep) ==
  IF s = <<>> THEN <<>>
  ELSE IF Head(s) \in keep THEN <<Head(s)>> \o SelectSeq2(Tail(s), keep)
       ELSE SelectSeq2(Tail(s), keep)

RECURSIVE SortedLetters(_)
\* sorted(set of letters)
SortedLetters(S) ==
  IF S = {} THEN <<>>
  ELSE LET m == CHOOSE x \in S : \A z \in S : LetterOrd(x) <= LetterOrd(z)
       IN  <<m>> \o SortedLetters(S \ {m})

build_class_teacher_map(columns, rows) ==
  LET class_cols == SelectSeq2(columns, Range(columns) \ {Docente})
      vcols == SelectSeq2(class_cols, {c \in Range(class_cols) : parse_class(c) # None})
      ctt == [c \in Range(vcols) |-> {rows[r].Docente : r \in Mask(rows, c)}]
      parsed == [c \in Range(vcols) |-> parse_class(c)]
      keys == {parsed[c] : c \in Range(vcols)}
      \* a dict comprehension keeps the last column of each (year, letter)
      ylc == [k \in keys |->
                vcols[CHOOSE i \in 1..Len(vcols) :
                        /\ parsed[vcols[i]] = k
                        /\ \A j \in (i+1)..Len(vcols) : parsed[vcols[j]] # k]]
      letters == SortedLetters({k[2] : k \in keys})
      complete == SelectSeq2(letters,
                     {ltr \in Range(letters) : \A y \in Years : <<y, ltr>> \in keys})
  IN  [valid_cols |-> vcols, class_to_teachers |-> ctt,
       year_letter_to_class |-> ylc, complete_letters |-> complete]

RECURSIVE SharesTeacherShortRange(_, _, _, _, _)
\* the loop over range(1, 5): the last year is never looked at
SharesTeacherShortRange(y, L1, L2, ctt, ylc) ==
  IF y >= LastYear THEN FALSE
  ELSE IF ctt[ylc[<<y, L1>>]] \cap ctt[ylc[<<y, L2>>]] # {} THEN TRUE
       ELSE SharesTeacherShortRange(y + 1, L1, L2, ctt, ylc)

RECURSIVE SharesTeacherFrom(_, _, _, _, _)
\* the loop over the years of one pair, leaving at the first year with a shared teacher
SharesTeacherFrom(y, L1, L2, ctt, ylc) ==
  IF y > LastYear THEN FALSE
  ELSE IF ctt[ylc[<<y, L1>>]] \cap ctt[ylc[<<y, L2>>]] # {} THEN TRUE
       ELSE SharesTeacherFrom(y + 1, L1, L2, ctt, ylc)

\* only conflicts[L1].add(L2)
AddConflictOneWay(conf, L1, L2) == [conf EXCEPT ![L1] = @ \cup {L2}]

\* conflicts[L1].add(L2); conflicts[L2].add(L1)
AddConflict(conf, L1, L2) ==
  [conf EXCEPT ![L1] = @ \cup {L2}, ![L2] = @ \cup {L1}]

RECURSIVE ConflictLoop(_, _, _, _, _, _)
\* for i, L1 in enumerate(letters): for L2 in letters[i+1:]
ConflictLoop(conf, i, j, letters, ctt, ylc) ==
  IF i > Len(letters) THEN conf
  ELSE IF j > Len(letters) THEN ConflictLoop(conf, i + 1, i + 2, letters, ctt, ylc)
  ELSE ConflictLoop(
         IF SharesTeacherFrom(1, letters[i], letters[j], ctt, ylc)
           THEN AddConflict(conf, letters[i], letters[j])
           ELSE conf,
         i, j + 1, letters, ctt, ylc)

letters_conflict_graph(letters, ctt, ylc) ==
  ConflictLoop([L \in Range(letters) |-> {}], 1, 2, letters, ctt, ylc)

\* the place an unstable sort may put L: before the letters of equal key
InsertAtBeforeEqual(res, L, conf) ==
  Cardinality({k \in 1..Len(res) :
                 Cardinality(conf[res[k]]) > Cardinality(conf[L])})

\* where a stable descending sort puts L among the letters sorted so far:
\* after every letter whose key is at least its own
InsertAt(res, L, conf) ==
  Cardinality({k \in 1..Len(res) :
                 Cardinality(conf[res[k]]) >= Cardinality(conf[L])})

RECURSIVE SortLoop(_, _, _)
SortLoop(res, rest, conf) ==
  IF rest = <<>> THEN res
  ELSE LET L == Head(rest)
           k == InsertAt(res, L, conf)
       IN  SortLoop(SubSeq(res, 1, k) \o <<L>> \o SubSeq(res, k + 1, Len(res)),
                    Tail(rest), conf)

\* sorted(letters, key=lambda L: len(conflicts[L]), reverse=True)
SortByConflicts(letters, conf) == SortLoop(<<>>, letters, conf)

\* the test without the conflict check
FitsSizeOnly(g, L, conf, size) == Len(g) < size

\* the test without the size check
FitsConflictOnly(g, L, conf, size) == \A k \in 1..Len(g) : L \notin conf[g[k]]

\* the test of the inner loop of greedy_group_letters
Fits(g, L, conf, size) ==
  /\ Len(g) < size
  /\ \A k \in 1..Len(g) : L \notin conf[g[k]]

\* the pass without its break: L goes into every group that fits
PlaceNoBreak(gs, L, conf, size) ==
  LET fit == {n \in 1..Len(gs) : Fits(gs[n], L, conf, size)}
  IN  IF fit # {}
        THEN [n \in 1..Len(gs) |-> IF n \in fit THEN Append(gs[n], L) ELSE gs[n]]
        ELSE Append(gs, <<L>>)

\* the pass that forces L into the first group with room when no group fits
PlaceForced(gs, L, conf, size) ==
  LET fit == {n \in 1..Len(gs) : Fits(gs[n], L, conf, size)}
      room == {n \in 1..Len(gs) : Len(gs[n]) < size}
      first(S) == CHOOSE m \in S : \A z \in S : m <= z
  IN  IF fit # {} THEN [gs EXCEPT ![first(fit)] = Append(@, L)]
      ELSE IF room # {} THEN [gs EXCEPT ![first(room)] = Append(@, L)]
      ELSE Append(gs, <<L>>)

\* one pass of the outer loop: L goes into the first group that fits, else a new one
Place(gs, L, conf, size) ==
  LET fit == {n \in 1..Len(gs) : Fits(gs[n], L, conf, size)}
  IN  IF fit # {}
        THEN LET n == CHOOSE m \in fit : \A z \in fit : m <= z
             IN  [gs EXCEPT ![n] = Append(@, L)]
        ELSE Append(gs, <<L>>)

build_tables(gs, ylc) ==
  [gi \in 1..Len(gs) |->
     [gi |-> gi, g |-> gs[gi],
      tab |-> [y \in Years |->
                 [L \in Range(gs[gi]) |->
                    IF <<y, L>> \in DOMAIN ylc THEN ylc[<<y, L>>] ELSE <<>>]]]]

\* row_ok comparing the teacher sets instead of intersecting them
row_ok_compare(class_names, ctt) ==
  LET cl == SelectSeq2(class_names, Range(class_names) \ {<<>>})
  IN  \A a \in 1..Len(cl) : \A b \in (a+1)..Len(cl) : ctt[cl[a]] # ctt[cl[b]]

\* row_ok: no two of the non-empty labels of the row share a teacher
row_ok(class_names, ctt) ==
  LET cl == SelectSeq2(class_names, Range(class_names) \ {<<>>})
  IN  \A a \in 1..Len(cl) : \A b \in (a+1)..Len(cl) : ctt[cl[a]] \cap ctt[cl[b]] = {}

validate_rows(tabs, ctt) ==
  [n \in 1..(Len(tabs) * LastYear) |->
     LET t == tabs[((n - 1) \div LastYear) + 1]
         y == ((n - 1) % LastYear) + 1
         ok == row_ok([k \in 1..Len(t.g) |-> t.tab[y][t.g[k]]], ctt)
     IN  [Tabella |-> t.gi, Anno |-> y, Valida |-> IF ok THEN "Si" ELSE "No"]]

-----------------------------------------------------------------------------
(* The steps of app.py *)

BuildClassTeacherMap ==
  /\ pc = "loaded"
  /\ \E r \in {build_class_teacher_map(df_columns, df_rows)} :
         /\ valid_cols' = r.valid_cols
         /\ class_to_teachers' = r.class_to_teachers
         /\ year_letter_to_class' = r.year_letter_to_class
         /\ complete_letters' = r.complete_letters
  /\ pc' = "registry"
  /\ UNCHANGED <<df_columns, df_rows, max_group_size, conflicts, letters_sorted,
                 idx, groups, tables, validation, error>>

\* if not complete_letters: st.error(...); st.stop()
Stop ==
  /\ pc = "registry"
  /\ complete_letters = <<>>
  /\ error' = "Nessuna lettera presente per tutti i 5 anni"
  /\ pc' = "stopped"
  /\ UNCHANGED <<df_columns, df_rows, max_group_size, valid_cols, class_to_teachers,
                 year_letter_to_class, complete_letters, conflicts, letters_sorted,
                 idx, groups, tables, validation>>

\* the step when app.py does not stop on an empty complete_letters
LettersConflictGraphNoStop ==
  /\ pc = "registry"
  /\ conflicts' = letters_conflict_graph(complete_letters, class_to_teachers,
                                         year_letter_to_class)
  /\ pc' = "conflicts"
  /\ UNCHANGED <<df_columns, df_rows, max_group_size, valid_cols, class_to_teachers,
                 year_letter_to_class, complete_letters, letters_sorted,
                 idx, groups, tables, validation, error>>

LettersConflictGraph ==
  /\ pc = "registry"
  /\ complete_letters # <<>>
  /\ conflicts' = letters_conflict_graph(complete_letters, class_to_teachers,
                                         year_letter_to_class)
  /\ pc' = "conflicts"
  /\ UNCHANGED <<df_columns, df_rows, max_group_size, valid_cols, class_to_teachers,
                 year_letter_to_class, complete_letters, letters_sorted,
                 idx, groups, tables, validation, error>>

\* greedy_group_letters, up to the first pass of its loop
GreedySort ==
  /\ pc = "conflicts"
  /\ letters_sorted' = SortByConflicts(complete_letters, conflicts)
  /\ groups' = <<>>
  /\ idx' = 1
  /\ pc' = "placing"
  /\ UNCHANGED <<df_columns, df_rows, max_group_size, valid_cols, class_to_teachers,
                 year_letter_to_class, complete_letters, conflicts,
                 tables, validation, error>>

\* one pass of "for L in letters_sorted"
PlaceLetter ==
  /\ pc = "placing"
  /\ idx <= Len(letters_sorted)
  /\ groups' = Place(groups, letters_sorted[idx], conflicts, max_group_size)
  /\ idx' = idx + 1
  /\ UNCHANGED <<df_columns, df_rows, max_group_size, pc, valid_cols, class_to_teachers,
                 year_letter_to_class, complete_letters, conflicts, letters_sorted,
                 tables, validation, error>>

\* the loop has ended: return groups, and app.py goes on to build_tables
BuildTables ==
  /\ pc = "placing"
  /\ idx > Len(letters_sorted)
  /\ tables' = build_tables(groups, year_letter_to_class)
  /\ pc' = "tables"
  /\ UNCHANGED <<df_columns, df_rows, max_group_size, valid_cols, class_to_teachers,
                 year_letter_to_class, complete_letters, conflicts, letters_sorted,
                 idx, groups, validation, error>>

ValidateRows ==
  /\ pc = "tables"
  /\ validation' = validate_rows(tables, class_to_teachers)
  /\ pc' = "validated"
  /\ UNCHANGED <<df_columns, df_rows, max_group_size, valid_cols, class_to_teachers,
                 year_letter_to_class, complete_letters, conflicts, letters_sorted,
                 idx, groups, tables, error>>

-----------------------------------------------------------------------------
(* Inputs *)

\* the class label of year y and letter L, as a header writes it
Label(y, L) == <<Digits[y + 1], L>>

RECURSIVE Flatten(_)
Flatten(ss) == IF ss = <<>> THEN <<>> ELSE Head(ss) \o Flatten(Tail(ss))

RECURSIVE SetToSeq(_)
SetToSeq(S) == IF S = {} THEN <<>> ELSE LET x == CHOOSE x \in S : TRUE
                                        IN  <<x>> \o SetToSeq(S \ {x})

\* the header "Docente;1A;2A;...": for each letter of ls the years of yrs[L], ascending
Header(ls, yrs) ==
  <<Docente>> \o
  Flatten([k \in 1..Len(ls) |->
             SelectSeq2([y \in 1..LastYear |-> Label(y, ls[k])],
                        {Label(y, ls[k]) : y \in yrs[ls[k]]})])

Cell(text) == [na |-> FALSE, s |-> text]
\* an empty CSV field is read as NaN; astype(str) makes it "nan"
NaN == [na |-> TRUE, s |-> <<"n","a","n">>]

\* what one teacher teaches: nothing, or in one year the classes of two letters or of
\* every letter
NoLoad == [year |-> 1, lets |-> {}]
Loads(ls) ==
  {NoLoad} \cup
  {[year |-> y, lets |-> S] :
     y \in Years, S \in {T \in SUBSET ls : Cardinality(T) = 2 \/ (T = ls /\ T # {})}}

\* n teachers' loads, up to the order of the teachers
LoadChoices(n, ls) ==
  LET list == SetToSeq(Loads(ls))
  IN  {[r \in 1..n |-> list[ix[r]]] :
         ix \in {f \in [1..n -> 1..Len(list)] : \A r \in 1..(n-1) : f[r] <= f[r+1]}}

\* the rows of the data frame: teacher r has "x" in the classes of load[r]; its other
\* cells are empty fields (odd rows) or a blank (even rows)
Rows(columns, load) ==
  [r \in 1..Len(load) |->
     [Docente |-> r,
      cells |-> [c \in Range(columns) \ {Docente} |->
                   IF /\ parse_class(c) # None
                      /\ parse_class(c)[1] = load[r].year
                      /\ parse_class(c)[2] \in load[r].lets
                     THEN Cell(<<"x">>)
                     ELSE IF r % 2 = 1 THEN NaN ELSE Cell(<<" ">>)]]]

PoolLetters(n) == SubSeq(Upper, 1, n)

NotRun ==
  /\ valid_cols = Unset /\ class_to_teachers = Unset /\ year_letter_to_class = Unset
  /\ complete_letters = Unset /\ conflicts = Unset /\ letters_sorted = Unset
  /\ idx = 0 /\ groups = Unset /\ tables = Unset /\ validation = Unset /\ error = ""

\* which letters of the pool lack year 5: none, one of them, or all
Lacking(ls) == {{}, ls} \cup {{L} : L \in ls}

\* app.py, from a loaded data frame
Init ==
  LET ls == PoolLetters(NumLetters)
  IN  /\ \E lack \in Lacking(Range(ls)) :
           df_columns = Header(ls, [L \in Range(ls) |->
                                      IF L \in lack THEN 1..(LastYear - 1) ELSE Years])
      /\ \E load \in LoadChoices(NumTeachers, Range(ls)) :
           df_rows = Rows(df_columns, load)
      /\ max_group_size = DefaultMaxGroupSize
      /\ pc = "loaded"
      /\ NotRun

Next ==
  \/ BuildClassTeacherMap
  \/ Stop
  \/ LettersConflictGraph
  \/ GreedySort
  \/ PlaceLetter
  \/ BuildTables
  \/ ValidateRows

Spec == Init /\ [][Next]_vars

\* app.py on five complete letters that conflict pairwise: teacher 1 has, in one year,
\* a class of every letter
InitScenarioC ==
  LET ls == PoolLetters(DefaultMaxGroupSize + 1)
  IN  /\ df_columns = Header(ls, [L \in Range(ls) |-> Years])
      /\ \E y \in Years :
         \E others \in LoadChoices(ScenarioTeachers - 1, Range(ls)) :
           df_rows = Rows(df_columns, <<[year |-> y, lets |-> Range(ls)]>> \o others)
      /\ max_group_size = DefaultMaxGroupSize
      /\ pc = "loaded"
      /\ NotRun

NextScenarioC ==
  \/ BuildClassTeacherMap
  \/ LettersConflictGraph
  \/ GreedySort
  \/ PlaceLetter
  \/ BuildTables
  \/ ValidateRows

SpecScenarioC == InitScenarioC /\ [][NextScenarioC]_vars

\* build_class_teacher_map on a header: each letter of the pool has all five years,
\* all but the first, all but the last, or none, and one more column of any name may
\* follow
RegChars == {" ", "1", "6", "A", "a"}
RECURSIVE Names(_)
Names(n) ==
  IF n = 0 THEN {<<>>}
  ELSE Names(n - 1) \cup {Append(w, ch) : w \in {v \in Names(n - 1) : Len(v) = n - 1},
                                          ch \in RegChars}

InitRegistry ==
  LET ls == PoolLetters(RegLetters)
      opts == {Years, {}, Years \ {1}, Years \ {LastYear}}
  IN  /\ \E yrs \in [Range(ls) -> opts] :
         \E extra \in {<<>>} \cup {<<w>> : w \in Names(MaxNameLen)} :
           /\ Range(extra) \cap Range(Header(ls, yrs)) = {}
           /\ df_columns = Header(ls, yrs) \o extra
      /\ df_rows = Rows(df_columns, <<[year |-> 1, lets |-> Range(ls)]>>)
      /\ max_group_size = DefaultMaxGroupSize
      /\ pc = "loaded"
      /\ NotRun

NextRegistry == BuildClassTeacherMap

SpecRegistry == InitRegistry /\ [][NextRegistry]_vars

\* greedy_group_letters on sorted letters and a symmetric conflict mapping
Pairs(S) == {T \in SUBSET S : Cardinality(T) = 2}

InitGroup ==
  /\ \E S \in SUBSET Range(PoolLetters(MaxLetters)) :
     \E E \in SUBSET Pairs(S) :
       /\ complete_letters = SortedLetters(S)
       /\ conflicts = [L \in S |-> {M \in S : {L, M} \in E}]
  /\ max_group_size \in 1..MaxLetters
  /\ pc = "conflicts"
  /\ df_columns = Unset /\ df_rows = Unset
  /\ valid_cols = Unset /\ class_to_teachers = Unset /\ year_letter_to_class = Unset
  /\ letters_sorted = Unset /\ idx = 0 /\ groups = Unset
  /\ tables = Unset /\ validation = Unset /\ error = ""

NextGroup ==
  \/ GreedySort
  \/ PlaceLetter

SpecGroup == InitGroup /\ [][NextGroup]_vars

\* build_tables and validate_rows on hand-built groups: the letters of the pool are
\* put into two groups in any way, and one class may be missing from the mapping
InitValidate ==
  LET ls == PoolLetters(ValLetters)
      cols == Header(ls, [L \in Range(ls) |-> Years])
  IN  /\ df_columns = cols
      /\ \E load \in LoadChoices(ValTeachers, Range(ls)) :
           /\ df_rows = Rows(cols, load)
           /\ class_to_teachers = build_class_teacher_map(cols, df_rows).class_to_teachers
      /\ \E missing \in SUBSET (Years \X Range(ls)) :
           /\ Cardinality(missing) <= 1
           /\ year_letter_to_class =
                [k \in (Years \X Range(ls)) \ missing |-> Label(k[1], k[2])]
      /\ \E side \in [Range(ls) -> 1..2] :
           groups = SelectSeq([n \in 1..2 |->
                                 SelectSeq2(ls, {L \in Range(ls) : side[L] = n})],
                              LAMBDA g : g # <<>>)
      /\ letters_sorted = ls
      /\ idx = Len(ls) + 1
      /\ max_group_size = DefaultMaxGroupSize
      /\ pc = "placing"
      /\ valid_cols = Unset /\ complete_letters = ls /\ conflicts = Unset
      /\ tables = Unset /\ validation = Unset /\ error = ""

NextValidate ==
  \/ BuildTables
  \/ ValidateRows

SpecValidate == InitValidate /\ [][NextValidate]_vars

-----------------------------------------------------------------------------
(* Properties *)

Deg(L) == Cardinality(conflicts[L])
Members(gs) == Range(Flatten(gs))
Grouped == {"placing", "tables", "validated"}
\* the letters share a teacher in some year, by the teacher sets of their classes
ShareTeacher(L1, L2) ==
  \E y \in Years :
    class_to_teachers[year_letter_to_class[<<y, L1>>]]
      \cap class_to_teachers[year_letter_to_class[<<y, L2>>]] # {}
ConflictingPairIn(g) ==
  \E a \in 1..Len(g) : \E b \in 1..Len(g) : a # b /\ g[b] \in conflicts[g[a]]
LoopEnded == pc = "placing" /\ idx > Len(letters_sorted)

\* C1 as stated: with 5 complete letters that conflict pairwise and max_group_size 4,
\* some group holds a conflicting pair and validate_rows reports a row "No".
ScenarioCForcesConflict ==
  pc = "validated" =>
    /\ \E n \in 1..Len(groups) : ConflictingPairIn(groups[n])
    /\ \E n \in 1..Len(validation) : validation[n].Valida = "No"

\* C1 as amended: with 5 complete letters that conflict pairwise and max_group_size 4,
\* every letter is alone in its group, no group holds a conflicting pair, and
\* validate_rows reports every row valid.
ScenarioCSeparates ==
  /\ pc \notin {"loaded", "registry"} =>
       /\ Len(complete_letters) = DefaultMaxGroupSize + 1
       /\ \A L1 \in Range(complete_letters) : \A L2 \in Range(complete_letters) :
            L1 # L2 => ShareTeacher(L1, L2)
  /\ (LoopEnded \/ pc \in {"tables", "validated"}) =>
       /\ Len(groups) = Len(complete_letters)
       /\ \A n \in 1..Len(groups) : Len(groups[n]) = 1 /\ ~ConflictingPairIn(groups[n])
  /\ pc = "validated" =>
       /\ Len(validation) = LastYear * Len(groups)
       /\ \A n \in 1..Len(validation) : validation[n].Valida = "Si"

ScenarioCWitness ==
  /\ pc = "validated"
  /\ max_group_size = DefaultMaxGroupSize
  /\ Len(complete_letters) = DefaultMaxGroupSize + 1
  /\ \A L \in Range(complete_letters) : conflicts[L] = Range(complete_letters) \ {L}
  /\ Len(validation) = LastYear * (DefaultMaxGroupSize + 1)

\* C2: at every pass of the placement loop the groups hold exactly the letters
\* processed so far, each once, and at the end exactly the input letters.
GroupingCoverage ==
  pc = "placing" =>
    LET flat == Flatten(groups)
    IN  /\ Len(flat) = idx - 1
        /\ Cardinality(Range(flat)) = Len(flat)
        /\ Range(flat) = {letters_sorted[k] : k \in 1..(idx - 1)}
        /\ Range(flat) \subseteq Range(complete_letters)
        /\ idx > Len(letters_sorted) => Range(flat) = Range(complete_letters)

GroupingCoverageWitness ==
  /\ LoopEnded
  /\ Len(complete_letters) >= 4
  /\ Len(groups) >= 2
  /\ \E n \in 1..Len(groups) : Len(groups[n]) >= 2

\* C3: at every pass of the placement loop every group has at least 1 and at most
\* max_group_size letters.
GroupSizeBound ==
  pc = "placing" =>
    \A n \in 1..Len(groups) : 1 <= Len(groups[n]) /\ Len(groups[n]) <= max_group_size

\* a full group turned away a letter that conflicts with none of its members
GroupSizeBoundWitness ==
  /\ LoopEnded
  /\ \E n \in 1..Len(groups) : \E m \in (n+1)..Len(groups) :
       /\ Len(groups[n]) = max_group_size
       /\ max_group_size >= 2
       /\ \A k \in 1..Len(groups[n]) : groups[m][1] \notin conflicts[groups[n][k]]

\* C4: every complete letter is a key of conflicts, no letter conflicts with itself, and
\* two distinct letters conflict, each way, iff their classes of some year share a teacher.
ConflictCorrect ==
  pc \in {"conflicts"} \cup Grouped =>
    /\ DOMAIN conflicts = Range(complete_letters)
    /\ \A L1 \in Range(complete_letters) :
         /\ L1 \notin conflicts[L1]
         /\ \A L2 \in Range(complete_letters) \ {L1} :
              /\ L2 \in conflicts[L1] <=> ShareTeacher(L1, L2)
              /\ L1 \in conflicts[L2] <=> ShareTeacher(L1, L2)

\* a pair shares teachers in two years, and another letter has no conflict
ConflictCorrectWitness ==
  /\ pc = "conflicts"
  /\ \E L \in Range(complete_letters) : conflicts[L] = {}
  /\ \E L1 \in Range(complete_letters) : \E L2 \in conflicts[L1] :
       Cardinality({y \in Years :
          class_to_teachers[year_letter_to_class[<<y, L1>>]]
            \cap class_to_teachers[year_letter_to_class[<<y, L2>>]] # {}}) >= 2

\* the non-empty class labels of the row of year y of table t
RowLabels(t, y) == {t.tab[y][L] : L \in Range(t.g)} \ {<<>>}

\* C5: validate_rows gives one record per table and year, flagged valid iff no two
\* distinct non-empty class labels of that row have a common teacher.
RowValidator ==
  pc = "validated" =>
    /\ Len(validation) = LastYear * Len(tables)
    /\ \A n \in 1..Len(tables) : \A y \in Years :
         LET recs == {k \in 1..Len(validation) :
                        validation[k].Tabella = tables[n].gi /\ validation[k].Anno = y}
             labels == RowLabels(tables[n], y)
         IN  /\ Cardinality(recs) = 1
             /\ \A k \in recs :
                  /\ validation[k].Valida \in {"Si", "No"}
                  /\ validation[k].Valida = "Si" <=>
                       \A c1 \in labels : \A c2 \in labels \ {c1} :
                         class_to_teachers[c1] \cap class_to_teachers[c2] = {}

\* a hand-built row with a shared teacher is flagged, and a row of two columns with
\* one label missing is valid
RowValidatorWitness ==
  /\ pc = "validated"
  /\ \E k \in 1..Len(validation) : validation[k].Valida = "No"
  /\ \E n \in 1..Len(tables) : \E y \in Years :
       /\ Len(tables[n].g) = 2
       /\ Cardinality(RowLabels(tables[n], y)) = 1
       /\ \E k \in 1..Len(validation) :
            /\ validation[k].Tabella = tables[n].gi
            /\ validation[k].Anno = y
            /\ validation[k].Valida = "Si"

\* C6: each pass of the loop places one letter; the letters placed before it have more
\* conflicts, or as many and come before it in the alphabet, and the letters still to
\* place have fewer, or as many and come after it.
Precedes(P, X) == Deg(P) > Deg(X) \/ (Deg(P) = Deg(X) /\ LetterOrd(P) < LetterOrd(X))
PlacementOrder ==
  [][(pc = "placing" /\ pc' = "placing") =>
       LET before == Members(groups)
           after == Members(groups')
       IN  /\ Cardinality(after \ before) = 1
           /\ \A X \in after \ before :
                /\ \A P \in before : Precedes(P, X)
                /\ \A Q \in Range(complete_letters) \ after : Precedes(X, Q)]_vars

\* letters of equal and of different conflict counts, placed in another order than given
PlacementOrderWitness ==
  /\ LoopEnded
  /\ letters_sorted # complete_letters
  /\ \E L1 \in Range(complete_letters) : \E L2 \in Range(complete_letters) :
       L1 # L2 /\ Deg(L1) = Deg(L2)
  /\ \E L1 \in Range(complete_letters) : \E L2 \in Range(complete_letters) :
       Deg(L1) > Deg(L2)

\* C7 as stated: L is complete iff columns named exactly digit-letter exist for its
\* five years; complete_letters is in alphabetical order without duplicates.
CompleteIffExactShape ==
  pc = "registry" =>
    /\ \A L \in UpperSet :
         L \in Range(complete_letters) <=>
           \A y \in Years : Label(y, L) \in Range(df_columns)
    /\ \A a \in 1..Len(complete_letters) : \A b \in (a+1)..Len(complete_letters) :
         LetterOrd(complete_letters[a]) < LetterOrd(complete_letters[b])

\* C7 as amended: L is complete iff columns whose name, with the surrounding whitespace
\* trimmed, is digit-letter exist for its five years; complete_letters is in alphabetical
\* order without duplicates.
CompleteIffTrimmedShape ==
  pc = "registry" =>
    /\ \A L \in UpperSet :
         L \in Range(complete_letters) <=>
           \A y \in Years : \E c \in Range(df_columns) : Strip(c) = Label(y, L)
    /\ \A a \in 1..Len(complete_letters) : \A b \in (a+1)..Len(complete_letters) :
         LetterOrd(complete_letters[a]) < LetterOrd(complete_letters[b])

\* letter A is complete through a column " 1A", next to another complete letter
CompleteIffTrimmedShapeWitness ==
  /\ pc = "registry"
  /\ Label(1, "A") \notin Range(df_columns)
  /\ <<" ", "1", "A">> \in Range(df_columns)
  /\ Len(complete_letters) = 2
  /\ complete_letters[1] = "A"

\* C8: with no complete letter the only step after the registry is the stop with its
\* error message; nothing runs after it, and no conflict graph, group, table or
\* validation record is made.
NoCompleteLettersStops ==
  [][/\ pc # "stopped"
     /\ (pc = "registry" /\ complete_letters = <<>>) =>
          /\ pc' = "stopped"
          /\ error' # ""
          /\ conflicts' = Unset /\ letters_sorted' = Unset /\ groups' = Unset
          /\ tables' = Unset /\ validation' = Unset]_vars

\* stopped on a header with valid class columns but no complete letter
NoCompleteLettersWitness ==
  /\ pc = "stopped"
  /\ valid_cols # <<>>
  /\ complete_letters = <<>>
  /\ error # ""
  /\ tables = Unset /\ validation = Unset

\* C9: no group ever holds two letters that conflict, and a letter that conflicts with
\* a member of every group that has room starts a new group of its own.
NoConflictInGroups(gs) == \A n \in 1..Len(gs) : ~ConflictingPairIn(gs[n])
ConflictingSeparated ==
  [][pc' = "placing" =>
       /\ NoConflictInGroups(groups')
       /\ (/\ pc = "placing"
           /\ \A n \in 1..Len(groups) :
                Len(groups[n]) < max_group_size =>
                  \E M \in Range(groups[n]) : M \in conflicts[letters_sorted[idx]])
            => groups' = Append(groups, <<letters_sorted[idx]>>)]_vars

\* a letter is alone in the last group although an earlier group has room
ConflictingSeparatedWitness ==
  /\ LoopEnded
  /\ Len(groups) >= 2
  /\ Len(groups[1]) >= 2
  /\ Len(groups[1]) < max_group_size
  /\ groups[Len(groups)][1] \in UNION {conflicts[M] : M \in Range(groups[1])}

\* C10: every record the pipeline's validation produces is flagged valid.
EndToEndValid ==
  pc = "validated" =>
    /\ Len(validation) = LastYear * Len(groups)
    /\ \A n \in 1..Len(validation) : validation[n].Valida = "Si"

\* a validated run with conflicting letters in different tables
EndToEndValidWitness ==
  /\ pc = "validated"
  /\ Len(tables) >= 2
  /\ \E L \in Range(complete_letters) : conflicts[L] # {}
  /\ \E n \in 1..Len(tables) : Len(tables[n].g) >= 2

====
